---- MODULE Spec2Model ----
(***************************************************************************)
(* The parser-combinator library of src/src/parser (traits.rs, impls.rs,   *)
(* errors.rs) and the JSON grammar built on it (src/tests/json.rs).        *)
(*                                                                         *)
(* A parser is a pure value: it is modelled as a record tree (one record   *)
(* per combinator struct or closure) and Parser::parse as the recursive    *)
(* operator Parse.  A text (&str) is a sequence of chars; a char is a      *)
(* one-character string, and "w" stands for a scalar that UTF-8 encodes in *)
(* two bytes, so that byte offsets (len, split_at, slicing) and char       *)
(* offsets (chars().position) differ as they do in the code.               *)
(***************************************************************************)
EXTENDS Integers, Sequences, FiniteSets, TLC

VARIABLES parser,     \* the parser value under evaluation
          input,      \* the text handed to parser.parse
          result,     \* what the call returned (NoResult before the call)
          subcalls,   \* the calls the outermost combinator made to its own sub-parsers
          previous,   \* the results on the texts this text was derived from (JSON runs)
          written     \* the parts a number literal was written from (number runs)

vars == <<parser, input, result, subcalls, previous, written>>

(***************************************************************************)
(* Bounds                                                                  *)
(***************************************************************************)
MaxLen == 3        \* chars in an input of the combinator runs
MaxLit == 2        \* chars in the literal of a top-level sequence(literal)

Alphabet == {"1", "2", "w"}
WideChars == {"w"}

Min2(a, b) == IF a <= b THEN a ELSE b

RECURSIVE Strings(_, _)
Strings(A, n) ==
    IF n = 0 THEN {<<>>}
    ELSE LET S == Strings(A, n - 1) IN S \cup {Append(s, c) : s \in S, c \in A}

Str1 == <<"1">>
Str2 == <<"2">>
Str12 == <<"1", "2">>
Str123 == <<"1", "2", "3">>

(***************************************************************************)
(* impl Input for &str                                                     *)
(***************************************************************************)
\* The byte offset at which the first k chars of s end.
ByteOffset(s, k) == k + Cardinality({i \in 1..k : s[i] \in WideChars})

\* str::len: the length in bytes
input_len(s) == ByteOffset(s, Len(s))

\* The number of chars in the first b bytes of s; -1 when byte offset b is not
\* a char boundary of s (inside a wide char, or past the end).
CharsIn(s, b) ==
    LET ks == {k \in 0..Len(s) : ByteOffset(s, k) = b}
    IN  IF ks = {} THEN -1 ELSE CHOOSE k \in ks : TRUE

is_char_boundary(s, b) == CharsIn(s, b) >= 0

\* &s[lo..hi]; the caller has checked both offsets (the code panics otherwise).
Slice(s, lo, hi) == SubSeq(s, CharsIn(s, lo) + 1, CharsIn(s, hi))

SliceOk(s, lo, hi) == lo <= hi /\ is_char_boundary(s, lo) /\ is_char_boundary(s, hi)

split_at(s, mid) == <<Slice(s, 0, mid), Slice(s, mid, input_len(s))>>

drop(s, size) == Slice(s, size, input_len(s))

take(s, size) == Slice(s, 0, size)

(***************************************************************************)
(* ParseResult<I, O> = Result<(I, O), ParserError<I>>, and the two ways a  *)
(* call can end without returning one: a panic (an out-of-range or          *)
(* non-boundary slice) and a loop that never ends.                         *)
(***************************************************************************)
ExcerptLen == 10

Ok(rest, out) == [kind |-> "ok", rest |-> rest, out |-> out]

ParserError(index, source, reason) ==
    [kind |-> "err", index |-> index, source |-> source, reason |-> reason]

from_error(error, index) ==
    ParserError(error.index + index, error.source, error.reason)

SourceSequence(matcher) == [tag |-> "Sequence", matcher |-> matcher]
SourceTakeWhile == [tag |-> "TakeWhile"]
SourceDropUntil == [tag |-> "DropUntil"]

Panic == [kind |-> "panic"]
Diverge == [kind |-> "diverge"]
NoResult == [kind |-> "none"]

\* Option<T>: None is <<>>, Some(x) is <<x>>.
None == <<>>
Some(x) == <<x>>

(***************************************************************************)
(* Primitive matchers                                                      *)
(***************************************************************************)
\* a.chars().zip(b.chars()).position(|(x, y)| x != y); -1 is None.
ZipPosition(a, b) ==
    LET n == Min2(Len(a), Len(b))
        bad == {i \in 1..n : a[i] # b[i]}
    IN  IF bad = {} THEN -1 ELSE (CHOOSE i \in bad : \A j \in bad : i <= j) - 1

sequence(matcher, inp) ==
    IF inp = <<>>
    THEN ParserError(0, SourceSequence(matcher), <<"empty sequence">>)
    ELSE LET position == ZipPosition(inp, matcher)
             hi == Min2(position + ExcerptLen, input_len(inp))
             mid == input_len(matcher)
         IN  IF position >= 0
             THEN IF SliceOk(inp, position, hi)
                  THEN ParserError(position, SourceSequence(matcher),
                                   <<"could not parse sequence", Slice(inp, position, hi)>>)
                  ELSE Panic
             ELSE IF is_char_boundary(inp, mid)
                  THEN Ok(split_at(inp, mid)[2], split_at(inp, mid)[1])
                  ELSE Panic

\* A predicate on chars: the chars of `set` when neg is FALSE, all others when TRUE.
Pred(neg, set) == [neg |-> neg, set |-> set]
Holds(pred, c) == (c \in pred.set) # pred.neg

\* s.chars().position(|c| !predicate(c)); -1 is None.
FirstNot(pred, s) ==
    LET bad == {i \in 1..Len(s) : ~Holds(pred, s[i])}
    IN  IF bad = {} THEN -1 ELSE (CHOOSE i \in bad : \A j \in bad : i <= j) - 1

\* take_while without the check of a first char that fails the predicate.
take_while_unchecked(pred, inp) ==
    IF inp = <<>>
    THEN ParserError(0, SourceTakeWhile, <<"empty sequence">>)
    ELSE LET position == FirstNot(pred, inp)
         IN  IF position >= 0
             THEN IF is_char_boundary(inp, position)
                  THEN Ok(split_at(inp, position)[2], split_at(inp, position)[1])
                  ELSE Panic
             ELSE Ok(<<>>, inp)

take_while(pred, inp) ==
    IF inp = <<>>
    THEN ParserError(0, SourceTakeWhile, <<"empty sequence">>)
    ELSE LET position == FirstNot(pred, inp)
         IN  IF position = 0
             THEN IF SliceOk(inp, 0, 1)
                  THEN ParserError(0, SourceTakeWhile,
                                   <<"could not parse for char", Slice(inp, 0, 1)>>)
                  ELSE Panic
             ELSE IF position > 0
             THEN IF is_char_boundary(inp, position)
                  THEN Ok(split_at(inp, position)[2], split_at(inp, position)[1])
                  ELSE Panic
             ELSE Ok(<<>>, inp)

(***************************************************************************)
(* Parser values: the combinator structs of traits.rs and the closures     *)
(* returned by its free functions.                                         *)
(***************************************************************************)
SequenceP(matcher) == [type |-> "sequence", matcher |-> matcher]
TakeWhileP(pred) == [type |-> "take_while", pred |-> pred]
And(first, second) == [type |-> "and", first |-> first, second |-> second]
Or(first, second) == [type |-> "or", first |-> first, second |-> second]
Map(f, p) == [type |-> "map", f |-> f, parser |-> p]
Many(p) == [type |-> "many", parser |-> p]
Sep(p, separator) == [type |-> "sep_by", parser |-> p, separator |-> separator]
Discard(d, p) == [type |-> "discard", discard |-> d, parser |-> p]
DropUntil(until) == [type |-> "drop_until", until |-> until]
WrappedP(left, p, right) == [type |-> "wrapped", left |-> left, parser |-> p, right |-> right]
OptP(f) == [type |-> "opt", f |-> f]
ParseIfP(cond, p) == [type |-> "parse_if", cond |-> cond, parser |-> p]
ValueP(v, f) == [type |-> "value", v |-> v, f |-> f]
Fn(name) == [type |-> "fn", name |-> name]

none_of(chars) == TakeWhileP(Pred(TRUE, chars))
not(chr) == TakeWhileP(Pred(TRUE, {chr}))
any(chars) == TakeWhileP(Pred(FALSE, chars))

\* One call of a combinator to one of its sub-parsers, and a combinator's
\* result together with the calls it made.
Call(which, inp, res) == [which |-> which, inp |-> inp, res |-> res]
Traced(res, log) == [res |-> res, calls |-> log]

RECURSIVE Parse(_, _)
RECURSIVE ParseTraced(_, _)
RECURSIVE Apply(_, _)
RECURSIVE Grammar(_)

(***************************************************************************)
(* impl Parser for Discard, Map, And, Or                                   *)
(***************************************************************************)
DiscardParse(p, inp) ==
    LET d == ParseTraced(p.discard, inp).res
        c1 == Call("discard", inp, d)
    IN  IF d.kind # "ok" THEN Traced(d, <<c1>>)
        ELSE LET r == ParseTraced(p.parser, d.rest).res
             IN  Traced(r, <<c1, Call("parser", d.rest, r)>>)

MapParse(p, inp) ==
    LET r == ParseTraced(p.parser, inp).res
        c1 == Call("parser", inp, r)
    IN  IF r.kind = "ok" THEN Traced(Ok(r.rest, Apply(p.f, r.out)), <<c1>>)
        ELSE Traced(r, <<c1>>)

AndParse(p, inp) ==
    LET r1 == ParseTraced(p.first, inp).res
        c1 == Call("first", inp, r1)
    IN  IF r1.kind # "ok" THEN Traced(r1, <<c1>>)
        ELSE LET r2 == ParseTraced(p.second, r1.rest).res
                 c2 == Call("second", r1.rest, r2)
             IN  IF r2.kind # "ok" THEN Traced(r2, <<c1, c2>>)
                 ELSE Traced(Ok(r2.rest, <<r1.out, r2.out>>), <<c1, c2>>)

\* or keeping the failure that got further into the input when both fail.
OrParseFurthest(p, inp) ==
    LET r1 == ParseTraced(p.first, inp).res
        c1 == Call("first", inp, r1)
    IN  IF r1.kind = "err"
        THEN LET r2 == ParseTraced(p.second, inp).res
                 log == <<c1, Call("second", inp, r2)>>
             IN  IF r2.kind = "err" /\ r1.index > r2.index
                 THEN Traced(r1, log)
                 ELSE Traced(r2, log)
        ELSE Traced(r1, <<c1>>)

OrParse(p, inp) ==
    LET r1 == ParseTraced(p.first, inp).res
        c1 == Call("first", inp, r1)
    IN  IF r1.kind = "err"
        THEN LET r2 == ParseTraced(p.second, inp).res
             IN  Traced(r2, <<c1, Call("second", inp, r2)>>)
        ELSE Traced(r1, <<c1>>)

(***************************************************************************)
(* impl Parser for Many: the loop, one sub-parser call per iteration.      *)
(***************************************************************************)
RECURSIVE ManyLoop(_, _, _, _)
ManyLoop(p, ipt, parsed, log) ==
    LET r == ParseTraced(p.parser, ipt).res
        log1 == Append(log, Call("parser", ipt, r))
    IN  CASE input_len(ipt) = 0 -> Traced(Ok(ipt, parsed), log)
          [] r.kind = "err" -> Traced(Ok(ipt, parsed), log1)
          [] r.kind # "ok" -> Traced(r, log1)
          [] input_len(r.rest) = input_len(ipt) -> Traced(Ok(ipt, parsed), log1)
          [] OTHER -> ManyLoop(p, r.rest, Append(parsed, r.out), log1)

ManyParse(p, inp) == ManyLoop(p, inp, <<>>, <<>>)

(***************************************************************************)
(* impl Parser for Sep.  The loop has no exit but a failure of the parser  *)
(* or of the separator.  The parsers are stateless, so an iteration that   *)
(* ends on the input it began with is followed by the same iteration for   *)
(* ever (ans growing until allocation fails): the call never returns,      *)
(* which is the outcome Diverge.                                           *)
(***************************************************************************)
\* Sep::parse giving back a separator that no element follows.
RECURSIVE SepLoopRestoring(_, _, _, _)
SepLoopRestoring(p, i, ans, log) ==
    LET r == ParseTraced(p.parser, i).res
        log1 == Append(log, Call("parser", i, r))
        s == ParseTraced(p.separator, r.rest).res
        log2 == Append(log1, Call("separator", r.rest, s))
        next == ParseTraced(p.parser, s.rest).res
    IN  CASE r.kind = "err" -> Traced(Ok(i, ans), log1)
          [] r.kind # "ok" -> Traced(r, log1)
          [] s.kind = "err" -> Traced(Ok(r.rest, Append(ans, r.out)), log2)
          [] s.kind # "ok" -> Traced(s, log2)
          [] s.rest = i -> Traced(Diverge, log2)
          [] next.kind = "err" ->
                 Traced(Ok(r.rest, Append(ans, r.out)),
                        Append(log2, Call("parser", s.rest, next)))
          [] OTHER -> SepLoopRestoring(p, s.rest, Append(ans, r.out), log2)

RECURSIVE SepLoop(_, _, _, _)
SepLoop(p, i, ans, log) ==
    LET r == ParseTraced(p.parser, i).res
        log1 == Append(log, Call("parser", i, r))
        s == ParseTraced(p.separator, r.rest).res
        log2 == Append(log1, Call("separator", r.rest, s))
    IN  CASE r.kind = "err" -> Traced(Ok(i, ans), log1)
          [] r.kind # "ok" -> Traced(r, log1)
          [] s.kind = "err" -> Traced(Ok(r.rest, Append(ans, r.out)), log2)
          [] s.kind # "ok" -> Traced(s, log2)
          [] s.rest = i -> Traced(Diverge, log2)
          [] OTHER -> SepLoop(p, s.rest, Append(ans, r.out), log2)

SepParse(p, inp) == SepLoop(p, inp, <<>>, <<>>)

(***************************************************************************)
(* impl Parser for DropUntil                                               *)
(***************************************************************************)
RECURSIVE DropUntilLoop(_, _, _, _)
DropUntilLoop(p, inp, offset, log) ==
    IF input_len(inp) <= offset
    THEN Traced(ParserError(0, SourceDropUntil,
                            <<"could not find any match for drop until">>), log)
    ELSE IF ~is_char_boundary(inp, offset) THEN Traced(Panic, log)
    ELSE LET r == ParseTraced(p.until, drop(inp, offset)).res
             log1 == Append(log, Call("until", drop(inp, offset), r))
         IN  IF r.kind = "err" THEN DropUntilLoop(p, inp, offset + 1, log1)
             ELSE Traced(r, log1)

DropUntilParse(p, inp) == DropUntilLoop(p, inp, 0, <<>>)

(***************************************************************************)
(* The closures of traits.rs: parse_if, wrapped, opt, value                *)
(***************************************************************************)
parse_if(p, ipt) ==
    LET c == ParseTraced(p.cond, ipt).res
        c1 == Call("cond", ipt, c)
    IN  CASE c.kind = "ok" ->
               LET r == ParseTraced(p.parser, c.rest).res
                   c2 == Call("parser", c.rest, r)
               IN  IF r.kind = "ok" THEN Traced(Ok(r.rest, Some(r.out)), <<c1, c2>>)
                   ELSE Traced(r, <<c1, c2>>)
          [] c.kind = "err" -> Traced(Ok(ipt, None), <<c1>>)
          [] OTHER -> Traced(c, <<c1>>)

wrapped(p, inp) ==
    LET l == ParseTraced(p.left, inp).res
        c1 == Call("left", inp, l)
    IN  IF l.kind # "ok" THEN Traced(l, <<c1>>)
        ELSE LET m == ParseTraced(p.parser, l.rest).res
                 c2 == Call("parser", l.rest, m)
             IN  IF m.kind # "ok" THEN Traced(m, <<c1, c2>>)
                 ELSE LET r == ParseTraced(p.right, m.rest).res
                          c3 == Call("right", m.rest, r)
                      IN  IF r.kind # "ok" THEN Traced(r, <<c1, c2, c3>>)
                          ELSE Traced(Ok(r.rest, m.out), <<c1, c2, c3>>)

\* opt leaving behind what the parser had matched before it failed.
opt_partial(p, inp) ==
    LET r == ParseTraced(p.f, inp).res
        c1 == Call("f", inp, r)
    IN  CASE r.kind = "ok" -> Traced(Ok(r.rest, Some(r.out)), <<c1>>)
          [] r.kind = "err" -> Traced(Ok(SubSeq(inp, r.index + 1, Len(inp)), None), <<c1>>)
          [] OTHER -> Traced(r, <<c1>>)

opt(p, inp) ==
    LET r == ParseTraced(p.f, inp).res
        c1 == Call("f", inp, r)
    IN  CASE r.kind = "ok" -> Traced(Ok(r.rest, Some(r.out)), <<c1>>)
          [] r.kind = "err" -> Traced(Ok(inp, None), <<c1>>)
          [] OTHER -> Traced(r, <<c1>>)

value(p, inp) ==
    LET r == ParseTraced(p.f, inp).res
        c1 == Call("f", inp, r)
    IN  IF r.kind = "ok" THEN Traced(Ok(r.rest, p.v), <<c1>>)
        ELSE Traced(r, <<c1>>)

\* char::is_whitespace, on the chars of the model's texts
WhitespaceChars == {" "}

ws == OptP(TakeWhileP(Pred(FALSE, WhitespaceChars)))

(***************************************************************************)
(* Parser::parse: the call a parser value answers                          *)
(***************************************************************************)
ParseTraced(p, inp) ==
    CASE p.type = "sequence" -> Traced(sequence(p.matcher, inp), <<>>)
      [] p.type = "take_while" -> Traced(take_while(p.pred, inp), <<>>)
      [] p.type = "and" -> AndParse(p, inp)
      [] p.type = "or" -> OrParse(p, inp)
      [] p.type = "map" -> MapParse(p, inp)
      [] p.type = "many" -> ManyParse(p, inp)
      [] p.type = "sep_by" -> SepParse(p, inp)
      [] p.type = "discard" -> DiscardParse(p, inp)
      [] p.type = "drop_until" -> DropUntilParse(p, inp)
      [] p.type = "wrapped" -> wrapped(p, inp)
      [] p.type = "opt" -> opt(p, inp)
      [] p.type = "parse_if" -> parse_if(p, inp)
      [] p.type = "value" -> value(p, inp)
      [] p.type = "fn" -> Traced(Parse(Grammar(p.name), inp), <<>>)

\* The result alone, which is all a combinator sees of the parsers it is built
\* over: the impls above without their record of calls.  A named function of
\* the grammar builds its parser and calls parse on it.
Parse(p, inp) ==
    CASE p.type = "sequence" -> sequence(p.matcher, inp)
      [] p.type = "take_while" -> take_while(p.pred, inp)
      [] p.type = "fn" -> Parse(Grammar(p.name), inp)
      [] p.type = "or" ->
             LET r1 == Parse(p.first, inp)
             IN  IF r1.kind = "err" THEN Parse(p.second, inp) ELSE r1
      [] p.type = "and" ->
             LET r1 == Parse(p.first, inp)
             IN  IF r1.kind # "ok" THEN r1
                 ELSE LET r2 == Parse(p.second, r1.rest)
                      IN  IF r2.kind # "ok" THEN r2
                          ELSE Ok(r2.rest, <<r1.out, r2.out>>)
      [] p.type = "map" ->
             LET r == Parse(p.parser, inp)
             IN  IF r.kind = "ok" THEN Ok(r.rest, Apply(p.f, r.out)) ELSE r
      [] p.type = "discard" ->
             LET d == Parse(p.discard, inp)
             IN  IF d.kind # "ok" THEN d ELSE Parse(p.parser, d.rest)
      [] p.type = "wrapped" ->
             LET l == Parse(p.left, inp)
             IN  IF l.kind # "ok" THEN l
                 ELSE LET m == Parse(p.parser, l.rest)
                      IN  IF m.kind # "ok" THEN m
                          ELSE LET r == Parse(p.right, m.rest)
                               IN  IF r.kind # "ok" THEN r ELSE Ok(r.rest, m.out)
      [] p.type = "opt" ->
             LET r == Parse(p.f, inp)
             IN  CASE r.kind = "ok" -> Ok(r.rest, Some(r.out))
                   [] r.kind = "err" -> Ok(inp, None)
                   [] OTHER -> r
      [] p.type = "parse_if" ->
             LET c == Parse(p.cond, inp)
             IN  CASE c.kind = "ok" ->
                        LET r == Parse(p.parser, c.rest)
                        IN  IF r.kind = "ok" THEN Ok(r.rest, Some(r.out)) ELSE r
                   [] c.kind = "err" -> Ok(inp, None)
                   [] OTHER -> c
      [] p.type = "value" ->
             LET r == Parse(p.f, inp)
             IN  IF r.kind = "ok" THEN Ok(r.rest, p.v) ELSE r
      [] p.type = "many" -> ManyLoop(p, inp, <<>>, <<>>).res
      [] p.type = "sep_by" -> SepLoop(p, inp, <<>>, <<>>).res
      [] p.type = "drop_until" -> DropUntilLoop(p, inp, 0, <<>>).res

(***************************************************************************)
(* The values the JSON grammar builds (src/tests/json.rs).  A Number is an *)
(* f64; it is modelled exactly, as a signed fraction num/den (den = 0 is   *)
(* an infinity, and a zero keeps its sign), so the rounding of f64 is not  *)
(* modelled.                                                               *)
(***************************************************************************)
JNull == [tag |-> "Null"]
JBoolean(b) == [tag |-> "Boolean", b |-> b]
JString(str) == [tag |-> "String", s |-> str]
JNumber(x) == [tag |-> "Number", x |-> x]
JArray(items) == [tag |-> "Array", items |-> items]
JObject(map) == [tag |-> "Object", map |-> map]

F64(neg, num, den) == [neg |-> neg, num |-> num, den |-> den]

RECURSIVE Power(_, _)
Power(b, n) == IF n = 0 THEN 1 ELSE b * Power(b, n - 1)

\* f64::powi
powi(x, n) ==
    LET m == IF n < 0 THEN -n ELSE n
        neg == x.neg /\ m % 2 = 1
    IN  IF n >= 0 THEN F64(neg, Power(x.num, m), Power(x.den, m))
        ELSE IF x.num = 0 THEN F64(neg, 1, 0)
        ELSE F64(neg, Power(x.den, m), Power(x.num, m))

\* The other reading of an exponent: the mantissa times ten to the exponent.
calculate_number_scaled(sign, integral, decimal, exponent) ==
    LET num == integral * decimal.den + decimal.num
        m == IF exponent < 0 THEN -exponent ELSE exponent
    IN  IF exponent >= 0 THEN F64(sign < 0, num * Power(10, m), decimal.den)
        ELSE F64(sign < 0, num, decimal.den * Power(10, m))

calculate_number(sign, integral, decimal, exponent) ==
    powi(F64(sign < 0, integral * decimal.den + decimal.num, decimal.den), exponent)

DigitChars == {"0", "1", "2", "3", "4", "5", "6", "7", "8", "9"}

DigitValue(c) ==
    CASE c = "0" -> 0 [] c = "1" -> 1 [] c = "2" -> 2 [] c = "3" -> 3 [] c = "4" -> 4
      [] c = "5" -> 5 [] c = "6" -> 6 [] c = "7" -> 7 [] c = "8" -> 8 [] c = "9" -> 9

\* str::parse::<u64>() / ::<i32>() followed by unwrap, on a digit run.  The
\* runs of the model are far shorter than the 20 (10) digits at which the
\* unwrap panics.
RECURSIVE ParseDigits(_)
ParseDigits(str) ==
    IF str = <<>> THEN 0
    ELSE 10 * ParseDigits(SubSeq(str, 1, Len(str) - 1)) + DigitValue(str[Len(str)])

\* vec.into_iter().collect::<String>()
RECURSIVE Concat(_)
Concat(pieces) == IF pieces = <<>> THEN <<>> ELSE Head(pieces) \o Concat(Tail(pieces))

\* Iterator::collect::<HashMap<String, JsonValue>>(): the last pair of a key wins.
CollectHashMap(pairs) ==
    [k \in {pairs[i][1] : i \in 1..Len(pairs)} |->
        LET last == CHOOSE i \in 1..Len(pairs) :
                        /\ pairs[i][1] = k
                        /\ \A j \in 1..Len(pairs) : pairs[j][1] = k => j <= i
        IN  pairs[last][2]]

\* The closures handed to map.
Apply(f, out) ==
    CASE f.fn = "const" -> f.v
      [] f.fn = "Vec::into_iter" -> out
      [] f.fn = "collect_hashmap" -> CollectHashMap(out)
      [] f.fn = "JsonValue::Object" -> JObject(out)
      [] f.fn = "JsonValue::Array" -> JArray(out)
      [] f.fn = "JsonValue::String" -> JString(out)
      [] f.fn = "String::from" -> out
      [] f.fn = "collect_string" -> Concat(out)
      [] f.fn = "is_true" -> JBoolean(out = <<"t", "r", "u", "e">>)
      [] f.fn = "sign" -> IF out # None THEN -1 ELSE 1
      [] f.fn = "parse_unwrap" -> ParseDigits(out)
      [] f.fn = "decimal" -> IF out = None THEN F64(FALSE, 0, 1)
                             ELSE F64(FALSE, ParseDigits(out[1]), Power(10, Len(out[1])))
      [] f.fn = "unwrap_or_1" -> IF out = None THEN 1 ELSE out[1]
      [] f.fn = "mul_parse" -> out[1] * ParseDigits(out[2])
      [] f.fn = "number" ->
             JNumber(calculate_number(out[1][1][1], out[1][1][2], out[1][2], out[2]))

MapFn(name) == [fn |-> name]
Const(v) == [fn |-> "const", v |-> v]
Lit(str) == SequenceP(str)

(***************************************************************************)
(* The JSON grammar                                                        *)
(***************************************************************************)
json_object ==
    Map(MapFn("JsonValue::Object"),
        Map(MapFn("collect_hashmap"),
            Map(MapFn("Vec::into_iter"),
                WrappedP(Lit(<<"{">>),
                         Sep(Fn("json_pair"), Lit(<<",">>)),
                         Discard(ws, Lit(<<"}">>))))))

json_pair ==
    WrappedP(ws,
             And(Map(MapFn("String::from"), Fn("string")),
                 Discard(WrappedP(ws, Lit(<<":">>), ws), Fn("json_value"))),
             ws)

null == Map(Const(JNull), Lit(<<"n", "u", "l", "l">>))

escaped ==
    Or(Or(Or(Or(Or(Or(Or(
        Map(Const(<<"\\">>), Lit(<<"\\", "\\">>)),
        Map(Const(<<"\"">>), Lit(<<"\\", "\"">>))),
        Map(Const(<<"LF">>), Lit(<<"\\", "n">>))),
        Map(Const(<<"TAB">>), Lit(<<"\\", "t">>))),
        Map(Const(<<"CR">>), Lit(<<"\\", "r">>))),
        Map(Const(<<"/">>), Lit(<<"\\", "/">>))),
        Map(Const(<<"FF">>), Lit(<<"\\", "f">>))),
        Map(Const(<<"BS">>), Lit(<<"\\", "b">>)))

string ==
    WrappedP(Lit(<<"\"">>),
             Map(MapFn("collect_string"),
                 Many(Or(none_of({"\"", "\\"}), Fn("escaped")))),
             Lit(<<"\"">>))

json_value ==
    Discard(ws,
            Or(Or(Or(Or(Or(Fn("null"), Fn("boolean")), Fn("array")), Fn("json_object")),
                  Map(MapFn("JsonValue::String"), Fn("string"))),
               Fn("json_number")))

array ==
    WrappedP(Lit(<<"[">>),
             Map(MapFn("JsonValue::Array"),
                 WrappedP(ws, Sep(Fn("json_value"), Lit(<<",">>)), ws)),
             Lit(<<"]">>))

boolean ==
    Map(MapFn("is_true"),
        Or(Lit(<<"t", "r", "u", "e">>), Lit(<<"f", "a", "l", "s", "e">>)))

json_number ==
    Map(MapFn("number"),
        And(And(And(Map(MapFn("sign"), OptP(Lit(<<"-">>))),
                    Fn("integral_part")),
                Fn("decimal_part")),
            Fn("exponent")))

integral_part == Map(MapFn("parse_unwrap"), Or(Lit(<<"0">>), Fn("digits")))

decimal_part == Map(MapFn("decimal"), ParseIfP(Lit(<<".">>), Fn("digits")))

exponent ==
    Map(MapFn("unwrap_or_1"),
        OptP(Map(MapFn("mul_parse"),
                 And(Discard(any({"e", "E"}),
                             Map(MapFn("unwrap_or_1"),
                                 OptP(Or(ValueP(-1, Lit(<<"-">>)),
                                         ValueP(1, Lit(<<"+">>)))))),
                     Fn("digits")))))

digits == TakeWhileP(Pred(FALSE, DigitChars))

\* The functions of the grammar, by name: each builds the parser above and
\* answers parse(input) with it.
Grammar(name) ==
    CASE name = "json_value" -> json_value
      [] name = "json_object" -> json_object
      [] name = "json_pair" -> json_pair
      [] name = "null" -> null
      [] name = "escaped" -> escaped
      [] name = "string" -> string
      [] name = "array" -> array
      [] name = "boolean" -> boolean
      [] name = "json_number" -> json_number
      [] name = "integral_part" -> integral_part
      [] name = "decimal_part" -> decimal_part
      [] name = "exponent" -> exponent
      [] name = "digits" -> digits

(***************************************************************************)
(* The combinator runs: one parser value built from the primitives, one    *)
(* input, one call of parse.                                               *)
(***************************************************************************)
Inputs == Strings(Alphabet, MaxLen)

Literals == Strings(Alphabet, MaxLit)

\* The sub-parsers the combinators are built over: two literals, two
\* predicate runs, and an optional and a repeated literal (which can succeed
\* without consuming anything).
SubParsers ==
    { SequenceP(Str1), SequenceP(Str12), any({"2"}), none_of({"1"}),
      OptP(SequenceP(Str1)), Many(SequenceP(Str2)) }

\* The delimiters of wrapped: a literal, a longer literal, optional whitespace-like run.
Delimiters == { SequenceP(Str1), SequenceP(Str12), OptP(SequenceP(Str1)) }

Parsers ==
    {SequenceP(m) : m \in Literals \cup {Str123}}
    \cup {any({"2"}), none_of({"1"}), not("w")}
    \cup {Many(p) : p \in SubParsers \cup {SequenceP(Str123)}}
    \cup {OptP(p) : p \in SubParsers}
    \cup {DropUntil(p) : p \in SubParsers}
    \cup {ValueP(1, p) : p \in SubParsers}
    \cup {Map([fn |-> "const", v |-> 246], p) : p \in SubParsers}
    \cup {And(p, q) : p \in SubParsers, q \in SubParsers}
    \cup {Or(p, q) : p \in SubParsers, q \in SubParsers}
    \cup {Sep(p, q) : p \in SubParsers, q \in SubParsers}
    \cup {Discard(p, q) : p \in SubParsers, q \in SubParsers}
    \cup {ParseIfP(p, q) : p \in SubParsers, q \in SubParsers}
    \cup {WrappedP(l, p, r) : l \in Delimiters, p \in SubParsers, r \in Delimiters}

Init ==
    /\ parser \in Parsers
    /\ input \in Inputs
    /\ result = NoResult
    /\ subcalls = <<>>
    /\ previous = <<>>
    /\ written = <<>>

\* parser.parse(input): the result and the calls made to the sub-parsers.
Called ==
    /\ result = NoResult
    /\ \E t \in {ParseTraced(parser, input)} :
          /\ result' = t.res
          /\ subcalls' = t.calls
    /\ UNCHANGED <<parser, input, previous, written>>

RunSequence ==
    /\ parser.type = "sequence"
    /\ Called

RunTakeWhile ==
    /\ parser.type = "take_while"
    /\ Called

RunAnd ==
    /\ parser.type = "and"
    /\ Called

RunOr ==
    /\ parser.type = "or"
    /\ Called

RunMap ==
    /\ parser.type = "map"
    /\ Called

RunMany ==
    /\ parser.type = "many"
    /\ Called

RunSepBy ==
    /\ parser.type = "sep_by"
    /\ Called

RunDiscard ==
    /\ parser.type = "discard"
    /\ Called

RunDropUntil ==
    /\ parser.type = "drop_until"
    /\ Called

RunWrapped ==
    /\ parser.type = "wrapped"
    /\ Called

RunOpt ==
    /\ parser.type = "opt"
    /\ Called

RunParseIf ==
    /\ parser.type = "parse_if"
    /\ Called

RunValue ==
    /\ parser.type = "value"
    /\ Called

Next ==
    \/ RunSequence
    \/ RunTakeWhile
    \/ RunAnd
    \/ RunOr
    \/ RunMap
    \/ RunMany
    \/ RunSepBy
    \/ RunDiscard
    \/ RunDropUntil
    \/ RunWrapped
    \/ RunOpt
    \/ RunParseIf
    \/ RunValue

Spec == Init /\ [][Next]_vars

Ran(type) == parser.type = type /\ result # NoResult

(***************************************************************************)
(* The JSON runs: json_value called on a text.  The texts are the          *)
(* documents of at most MaxItems items (a scalar, an array of scalars, an  *)
(* object of pairs), what is left of a document cut short or with one    *)
(* char missing, and the texts got from an accepted one by inserting a     *)
(* space next to a structural punctuation mark.                            *)
(***************************************************************************)
MaxItems == 2      \* items of an array, pairs of an object
MaxInserts == 1    \* spaces inserted into an accepted text

NullText == <<"n", "u", "l", "l">>
TrueText == <<"t", "r", "u", "e">>
FalseText == <<"f", "a", "l", "s", "e">>
StringTexts == { <<"\"", "a", "\"">>, <<"\"", "\\", "n", "\"">> }

Scalars == {NullText, TrueText, FalseText, <<"1">>} \cup StringTexts

\* A pair's key is a string; its value is one of the other scalars.
Pairs == {<<"\"", "a", "\"", ":">> \o s : s \in Scalars \ StringTexts}

\* Up to n of the items, joined by commas.
RECURSIVE Lists(_, _)
Lists(items, n) ==
    IF n = 0 THEN {<<>>}
    ELSE LET L == Lists(items, n - 1)
         IN  L \cup {IF l = <<>> THEN s ELSE l \o <<",">> \o s : l \in L, s \in items}

Documents ==
    Scalars
    \cup {<<"[">> \o l \o <<"]">> : l \in Lists(Scalars, MaxItems)}
    \cup {<<"{">> \o l \o <<"}">> : l \in Lists(Pairs, MaxItems)}

Truncations(t) == {SubSeq(t, 1, n) : n \in 0..Len(t)}

Deletions(t) == {SubSeq(t, 1, i - 1) \o SubSeq(t, i + 1, Len(t)) : i \in 1..Len(t)}

Texts == UNION {Truncations(d) \cup Deletions(d) : d \in Documents}

Punctuation == {",", ":", "{", "}", "[", "]"}

\* Whether the gap after the first i chars of text lies inside a string
\* literal (k is the char being scanned, inside the state before it).
RECURSIVE InsideString(_, _, _, _)
InsideString(text, i, k, inside) ==
    IF k > i THEN inside
    ELSE IF inside /\ text[k] = "\\" THEN
            IF k + 1 > i THEN TRUE ELSE InsideString(text, i, k + 2, TRUE)
    ELSE IF text[k] = "\"" THEN InsideString(text, i, k + 1, ~inside)
    ELSE InsideString(text, i, k + 1, inside)

\* The gaps of text next to a structural punctuation mark.
StructuralGaps(text) ==
    {i \in 0..Len(text) :
        /\ ~InsideString(text, i, 1, FALSE)
        /\ \/ i >= 1 /\ text[i] \in Punctuation
           \/ i < Len(text) /\ text[i + 1] \in Punctuation}

InsertAt(text, i, c) == SubSeq(text, 1, i) \o <<c>> \o SubSeq(text, i + 1, Len(text))

InitJson ==
    /\ parser = Fn("json_value")
    /\ input \in Texts
    /\ result = NoResult
    /\ subcalls = <<>>
    /\ previous = <<>>
    /\ written = <<>>

RunJsonValue ==
    /\ parser = Fn("json_value")
    /\ Called

\* The caller takes a document json_value accepted whole (or the text already
\* made from one) and writes a space next to one of its punctuation marks.
InsertWhitespace ==
    /\ parser = Fn("json_value")
    /\ previous # <<>> \/ input \in Documents
    /\ result.kind = "ok"
    /\ result.rest = <<>>
    /\ Len(previous) < MaxInserts
    /\ \E i \in StructuralGaps(input) :
          input' = InsertAt(input, i, " ")
    /\ previous' = Append(previous, result)
    /\ result' = NoResult
    /\ subcalls' = <<>>
    /\ UNCHANGED <<parser, written>>

NextJson ==
    \/ RunJsonValue
    \/ InsertWhitespace

SpecJson == InitJson /\ [][NextJson]_vars

\* C2: json_value ends every call by returning a success or a failure value.
C2_AlwaysReturns == Ran("fn") => result.kind \in {"ok", "err"}

\* A truncated literal: json_value("n") ends in a panic.
C2_Witness == Ran("fn") /\ input = <<"n">> /\ result = Panic

\* C7: a space inserted next to a structural punctuation mark of an accepted
\* text gives a text that is accepted and decodes to the same value.
C7_WhitespaceTolerant ==
    (previous # <<>> /\ result # NoResult) =>
        /\ result.kind = "ok"
        /\ result.out = previous[Len(previous)].out

\* "[1 ,1]", written from the accepted "[1,1]", is rejected.
C7_Witness ==
    /\ input = <<"[", "1", " ", ",", "1", "]">>
    /\ previous # <<>>
    /\ previous[1].kind = "ok"
    /\ result.kind = "err"

(***************************************************************************)
(* Number runs: json_number and json_value on number literals written from *)
(* their parts                                                             *)
(***************************************************************************)
MaxExp == 2        \* largest digit of a written exponent

Integrals == { <<"0">>, <<"1">>, <<"1", "5">> }
Fractions == { <<"3">>, <<"0">> }
ExponentLetters == {"e", "E"}
ExponentSigns == { <<>>, <<"+">>, <<"-">> }
ExponentDigits == { <<c>> : c \in {d \in DigitChars : DigitValue(d) <= MaxExp} }

Exponents ==
    [letter : ExponentLetters, sign : ExponentSigns, digits : ExponentDigits]

NumberLiterals ==
    [neg : BOOLEAN,
     int : Integrals,
     frac : {None} \cup {Some(f) : f \in Fractions},
     exp : {None} \cup {Some(e) : e \in Exponents}]

\* The text of a literal: sign, integral digits, '.' and fraction digits,
\* e/E with its sign and digits.
WriteNumber(w) ==
    (IF w.neg THEN <<"-">> ELSE <<>>)
    \o w.int
    \o (IF w.frac = None THEN <<>> ELSE <<".">> \o w.frac[1])
    \o (IF w.exp = None THEN <<>>
        ELSE <<w.exp[1].letter>> \o w.exp[1].sign \o w.exp[1].digits)

InitNum ==
    /\ parser \in {Fn("json_number"), Fn("json_value")}
    /\ written \in NumberLiterals
    /\ input = WriteNumber(written)
    /\ result = NoResult
    /\ subcalls = <<>>
    /\ previous = <<>>

RunJsonNumber ==
    /\ parser = Fn("json_number")
    /\ Called

NextNum ==
    \/ RunJsonNumber
    \/ RunJsonValue

SpecNum == InitNum /\ [][NextNum]_vars

\* The mantissa of the written parts, sign * (integral + fraction), and the
\* written exponent (1 when there is none).
SignedMantissa(w) ==
    LET k == IF w.frac = None THEN 0 ELSE Len(w.frac[1])
        f == IF w.frac = None THEN 0 ELSE ParseDigits(w.frac[1])
    IN  F64(w.neg, ParseDigits(w.int) * Power(10, k) + f, Power(10, k))

WrittenExponent(w) ==
    IF w.exp = None THEN 1
    ELSE (IF w.exp[1].sign = <<"-">> THEN -1 ELSE 1) * ParseDigits(w.exp[1].digits)

\* C8: a number literal decodes, with nothing left over, to
\* (sign * (integral + fraction)) raised to the power of its exponent, the
\* exponent being 1 when the literal has none; "-15.3E2" decodes to
\* (-15.3)^2 = 234.09.
C8_MantissaToThePower ==
    result # NoResult =>
        result = Ok(<<>>, JNumber(powi(SignedMantissa(written), WrittenExponent(written))))

\* "-15.3E2" has been decoded to 23409/100.
C8_Witness ==
    /\ parser = Fn("json_number")
    /\ input = <<"-", "1", "5", ".", "3", "E", "2">>
    /\ result = Ok(<<>>, JNumber(F64(FALSE, 23409, 100)))

(***************************************************************************)
(* Properties of the combinator runs                                       *)
(***************************************************************************)
IsPrefix(m, s) == Len(m) <= Len(s) /\ SubSeq(s, 1, Len(m)) = m

LastCall == subcalls[Len(subcalls)]

\* The units the outermost combinator had consumed when it made call c.
ConsumedBefore(c) == input_len(input) - input_len(c.inp)

\* C1: sequence(s) applied to s + r returns success (r, s); applied to an
\* input that does not start with s (a strict prefix of s and the empty input
\* included) it returns a failure.
C1_SequenceContract ==
    Ran("sequence") =>
        IF IsPrefix(parser.matcher, input)
        THEN result = Ok(SubSeq(input, Len(parser.matcher) + 1, Len(input)), parser.matcher)
        ELSE result.kind = "err"

\* sequence("12") on "1", a strict prefix of the literal: the zip finds no
\* mismatch and split_at(2) panics.
C1_Witness ==
    /\ Ran("sequence")
    /\ parser.matcher = <<"1", "2">>
    /\ input = <<"1">>
    /\ result = Panic

\* C3: a failure that and, discard or wrapped returns after consuming k units
\* and delegating to a sub-parser that failed with offset o has offset k + o.
C3_OffsetsRebased ==
    (parser.type \in {"and", "discard", "wrapped"} /\ result.kind = "err") =>
        result.index = ConsumedBefore(LastCall) + LastCall.res.index

\* The failure returned after consuming something carries the sub-parser's
\* own offset.
C3_Witness ==
    /\ parser.type \in {"and", "discard", "wrapped"}
    /\ result.kind = "err"
    /\ ConsumedBefore(LastCall) > 0
    /\ result = LastCall.res

\* A call of many's sub-parser that many keeps: a success that consumed input.
Productive(c) == c.res.kind = "ok" /\ input_len(c.res.rest) # input_len(c.inp)

OutputsOf(log) == [i \in 1..Len(log) |-> log[i].res.out]

\* C4: many(P) never returns a failure and never loops: it calls P at most
\* input.length + 1 times, each call on what the call before left, and stops
\* at the end of the input, at P's first failure or at P's first success that
\* consumed nothing; it returns success with the outputs of the consuming
\* calls in order (a zero-width result is not appended) and what the last of
\* them left.
C4_ManyNeverFails ==
    Ran("many") =>
        LET kept == SelectSeq(subcalls, Productive)
            n == Len(subcalls)
        IN  /\ result.kind = "ok"
            /\ n <= input_len(input) + 1
            /\ \A i \in 1..n :
                  /\ subcalls[i].inp = (IF i = 1 THEN input ELSE subcalls[i - 1].res.rest)
                  /\ i < n => Productive(subcalls[i])
            /\ result.kind = "ok" =>
                  /\ result.out = OutputsOf(kept)
                  /\ result.rest = (IF kept = <<>> THEN input ELSE kept[Len(kept)].res.rest)
                  /\ \/ input_len(result.rest) = 0
                     \/ n > 0 /\ LastCall.res.kind = "err"
                     \/ n > 0 /\ LastCall.res.kind = "ok" /\ ~Productive(LastCall)

\* many(sequence("12")) on "121": the second call of the sub-parser, on the
\* strict prefix "1" of its literal, panics, and many with it.
C4_Witness ==
    /\ Ran("many")
    /\ parser.parser = SequenceP(<<"1", "2">>)
    /\ input = <<"1", "2", "1">>
    /\ Len(subcalls) = 2
    /\ LastCall.res = Panic
    /\ result = Panic

\* C5: many(P) returns an error when P fails on its first attempt (so
\* sequence("123").many() on the empty input is an error).
C5_ManyFailsWhenFirstFails ==
    (Ran("many") /\ Parse(parser.parser, input).kind = "err") => result.kind = "err"

\* The sub-parser failed on its first attempt and many returned success with
\* nothing consumed.
C5_Witness ==
    /\ Ran("many")
    /\ Len(subcalls) = 1
    /\ subcalls[1].res.kind = "err"
    /\ result = Ok(input, <<>>)

\* C6: or(A, B) returns A's outcome without calling B where A succeeds, and
\* exactly the outcome of B alone on the original input where A fails; it
\* fails only if both fail.
C6_OrOutcome ==
    Ran("or") =>
        LET a == Parse(parser.first, input)
            b == Parse(parser.second, input)
        IN  /\ subcalls[1] = Call("first", input, a)
            /\ a.kind = "ok" => (result = a /\ Len(subcalls) = 1)
            /\ a.kind = "err" => (result = b /\ subcalls = <<Call("first", input, a),
                                                             Call("second", input, b)>>)
            /\ result.kind = "err" <=> (a.kind = "err" /\ b.kind = "err")

\* A failed deeper into the input than B does; B's failure is the one returned.
C6_Witness ==
    /\ Ran("or")
    /\ result.kind = "err"
    /\ Len(subcalls) = 2
    /\ subcalls[1].res.kind = "err"
    /\ subcalls[1].res.index > result.index

\* C10: sep_by(P, S) returns success with P's outputs in order on every
\* input: it never fails and never loops for ever.
C10_SepByTerminates ==
    Ran("sep_by") =>
        /\ result.kind # "err"
        /\ result.kind # "diverge"
        /\ result.kind = "ok" =>
              result.out = OutputsOf(SelectSeq(subcalls,
                                               LAMBDA c : c.which = "parser" /\ c.res.kind = "ok"))

\* The parser and the separator both succeeded on the empty input without
\* consuming: the loop never ends.
C10_Witness ==
    /\ Ran("sep_by")
    /\ Len(subcalls) = 2
    /\ subcalls[1].res.kind = "ok"
    /\ LastCall.res.kind = "ok"
    /\ LastCall.res.rest = input
    /\ result = Diverge

IsSuffix(r, s) == Len(r) <= Len(s) /\ SubSeq(s, Len(s) - Len(r) + 1, Len(s)) = r

\* Whether a production can only succeed by consuming input, from its shape.
\* With claimed = TRUE this is the classification of the original statement
\* (every sequence and every sep_by over a consuming parser consumes); with
\* claimed = FALSE a sequence consumes when its literal is not empty, and
\* opt, many, sep_by and parse_if may succeed on nothing.
RECURSIVE MustConsume(_, _)
MustConsume(p, claimed) ==
    CASE p.type = "sequence" -> claimed \/ p.matcher # <<>>
      [] p.type = "take_while" -> TRUE
      [] p.type = "and" -> MustConsume(p.first, claimed) \/ MustConsume(p.second, claimed)
      [] p.type = "discard" -> MustConsume(p.discard, claimed) \/ MustConsume(p.parser, claimed)
      [] p.type = "wrapped" -> \/ MustConsume(p.left, claimed)
                               \/ MustConsume(p.parser, claimed)
                               \/ MustConsume(p.right, claimed)
      [] p.type = "or" -> MustConsume(p.first, claimed) /\ MustConsume(p.second, claimed)
      [] p.type = "map" -> MustConsume(p.parser, claimed)
      [] p.type = "value" -> MustConsume(p.f, claimed)
      [] p.type = "drop_until" -> MustConsume(p.until, claimed)
      [] p.type = "sep_by" -> claimed /\ MustConsume(p.parser, claimed)
      [] p.type \in {"opt", "many", "parse_if"} -> FALSE
      [] p.type = "fn" -> p.name \notin {"decimal_part", "exponent"}

ShrinksInput(claimed) ==
    result.kind = "ok" =>
        /\ IsSuffix(result.rest, input)
        /\ MustConsume(parser, claimed) => input_len(result.rest) < input_len(input)

\* C9 as stated: a success never leaves more than it was given, and leaves
\* strictly less unless the production is opt, many or an optional part of the
\* number grammar (parse_if); sequence, take_while, sep_by and the
\* compositions with a consuming part never succeed on zero units.
C9_OnlyOptManyZeroWidth == ShrinksInput(TRUE)

\* C9 amended: a success leaves a suffix of the input, strictly shorter unless
\* the production is opt, many, sep_by, parse_if, sequence of the empty
\* literal, or a composition none of whose parts must consume.
C9_ZeroWidthProductions == ShrinksInput(FALSE)

\* sep_by over a consuming parser succeeds with nothing consumed.
C9_Witness ==
    /\ Ran("sep_by")
    /\ MustConsume(parser.parser, FALSE)
    /\ MustConsume(parser.separator, FALSE)
    /\ input # <<>>
    /\ result = Ok(input, <<>>)

\* C11: drop_until(U) tries U on the suffixes at offsets 0, 1, 2, ... in
\* order, each attempt but the last a failure, and returns U's own outcome at
\* the first offset below the input length where U succeeds; if there is none
\* (the empty input included) it fails with the DropUntil source after at most
\* input.length attempts.
C11_DropUntilFirstMatch ==
    Ran("drop_until") =>
        LET n == Len(subcalls)
        IN  /\ result.kind \in {"ok", "err"}
            /\ n <= input_len(input)
            /\ \A i \in 1..n :
                  /\ is_char_boundary(input, i - 1)
                  /\ subcalls[i] = Call("until", drop(input, i - 1),
                                        Parse(parser.until, drop(input, i - 1)))
                  /\ i < n => subcalls[i].res.kind = "err"
            /\ result.kind = "ok" => (n > 0 /\ result = LastCall.res)
            /\ result.kind = "err" =>
                  /\ result.source = SourceDropUntil
                  /\ n = input_len(input)
                  /\ \A i \in 1..n : subcalls[i].res.kind = "err"

\* drop_until(sequence("1")) on "w1": after the failure at offset 0 the next
\* offset, 1, is inside the two-byte char and input.drop(1) panics.
C11_Witness ==
    /\ Ran("drop_until")
    /\ parser.until = SequenceP(Str1)
    /\ input = <<"w", "1">>
    /\ Len(subcalls) = 1
    /\ result = Panic

\* C12: when P fails, opt(P) succeeds with None and the original input; when
\* C fails, parse_if(C, P) succeeds with None and the original input, P not
\* having run; parse_if returns a failure only when C succeeded and P then
\* failed, and the failure is P's.
C12_FailureSwallowedWhole ==
    /\ Ran("opt") =>
          /\ subcalls[1] = Call("f", input, Parse(parser.f, input))
          /\ subcalls[1].res.kind = "err" => result = Ok(input, None)
    /\ Ran("parse_if") =>
          /\ subcalls[1] = Call("cond", input, Parse(parser.cond, input))
          /\ subcalls[1].res.kind = "err" => (result = Ok(input, None) /\ Len(subcalls) = 1)
          /\ result.kind = "err" =>
                /\ Len(subcalls) = 2
                /\ subcalls[1].res.kind = "ok"
                /\ subcalls[2] = Call("parser", subcalls[1].res.rest,
                                      Parse(parser.parser, subcalls[1].res.rest))
                /\ result = subcalls[2].res
          /\ (Len(subcalls) = 2 /\ subcalls[2].res.kind = "err") => result.kind = "err"

\* opt over a parser that failed after matching a first char: the whole input
\* is handed back.
C12_Witness ==
    /\ Ran("opt")
    /\ subcalls[1].res.kind = "err"
    /\ subcalls[1].res.index > 0
    /\ result = Ok(input, None)

(***************************************************************************)
(* Separated-list runs: sep_by over the sub-parsers of the combinator runs *)
(* on their inputs, and sep_by(json_value, sequence(",")) and json_value   *)
(* on lists of JSON scalars, bare and in brackets, with and without a      *)
(* comma after the last item.                                              *)
(***************************************************************************)
ItemLists == Lists(Scalars, MaxItems)

TrailingLists == {l \o <<",">> : l \in ItemLists \ {<<>>}}

ArrayTexts ==
    ItemLists \cup TrailingLists
    \cup {<<"[">> \o l \o <<"]">> : l \in ItemLists \cup TrailingLists}

InitSep ==
    /\ \/ /\ parser \in {Sep(p, q) : p \in SubParsers, q \in SubParsers}
          /\ input \in Inputs
       \/ /\ parser \in {Sep(Fn("json_value"), Lit(<<",">>)), Fn("json_value")}
          /\ input \in ArrayTexts
    /\ result = NoResult
    /\ subcalls = <<>>
    /\ previous = <<>>
    /\ written = <<>>

NextSep ==
    \/ RunSepBy
    \/ RunJsonValue

SpecSep == InitSep /\ [][NextSep]_vars

\* The text is a bracketed list with a comma after its last item.
HasTrailingComma(text) ==
    /\ Len(text) >= 4
    /\ text[1] = "["
    /\ text[Len(text)] = "]"
    /\ text[Len(text) - 1] = ","

WithoutTrailingComma(text) == SubSeq(text, 1, Len(text) - 2) \o <<"]">>

\* C13: when sep_by(P, S) has parsed an element, S then succeeded and the next
\* run of P failed, sep_by returns success with the elements parsed and the
\* remainder the separator left: the trailing separator stays consumed.  So
\* json_value accepts an array with a comma after its last item, decoding it
\* to the array without that comma ("[true,]" to Array([Boolean(true)])).
C13_TrailingSeparatorConsumed ==
    /\ Ran("sep_by") =>
          LET n == Len(subcalls)
          IN  (n >= 2 /\ LastCall.which = "parser" /\ LastCall.res.kind = "err") =>
                  /\ subcalls[n - 2].which = "parser"
                  /\ subcalls[n - 2].res.kind = "ok"
                  /\ subcalls[n - 1] = Call("separator", subcalls[n - 2].res.rest,
                                            Parse(parser.separator, subcalls[n - 2].res.rest))
                  /\ subcalls[n - 1].res.kind = "ok"
                  /\ LastCall.inp = subcalls[n - 1].res.rest
                  /\ result.kind = "ok"
                  /\ result.rest = subcalls[n - 1].res.rest
                  /\ result.out = OutputsOf(SelectSeq(subcalls,
                                        LAMBDA c : c.which = "parser" /\ c.res.kind = "ok"))
    /\ (Ran("fn") /\ HasTrailingComma(input)) =>
          /\ result.kind = "ok"
          /\ result.rest = <<>>
          /\ result = Parse(Fn("json_value"), WithoutTrailingComma(input))

\* "[true,]" has been decoded to Array([Boolean(true)]).
C13_Witness ==
    /\ Ran("fn")
    /\ input = <<"[">> \o TrueText \o <<",", "]">>
    /\ result = Ok(<<>>, JArray(<<JBoolean(TRUE)>>))

====
